---------------------------- MODULE Spec2Model ----------------------------
(***************************************************************************)
(* Model of the in-memory item registry of main.go: the package-level      *)
(* slice `items` and the four request handlers getItems, addItem,          *)
(* getItemsByID and deleteItemsByID.  Spec handles one request at a time;  *)
(* SpecCalls calls the two pure functions parseQuery and searchID on       *)
(* arguments of their own; SpecConcurrent runs the handlers that write     *)
(* `items` in two goroutines, as net/http does for two connections, with   *)
(* no lock around the slice.                                               *)
(*                                                                         *)
(* Strings that are compared for order (item ids) are sequences of         *)
(* character codes, so that Go's lexicographic string comparison is        *)
(* computed and not assumed.  Timestamps are readings of a clock that      *)
(* never runs backwards.                                                   *)
(***************************************************************************)
EXTENDS Integers, Sequences, FiniteSets

VARIABLES
    items,  \* var items []item                         (main.go:33)
    now,    \* the reading time.Now() returns           (main.go:161)
    resp,   \* the request last handled and what was written to w
    call,   \* the pure function last called, its arguments and its result
    proc    \* per goroutine: where its handler stands, its locals, its answer

vars == <<items, now, resp, call, proc>>

-----------------------------------------------------------------------------
(* Bounds of the model *)

\* the store holds at most MaxItems items
MaxItems == 2
\* the clock reads 1..MaxTime
MaxTime == 2

-----------------------------------------------------------------------------
(* net/http status codes used by the handlers *)

StatusOK == 200
StatusCreated == 201
StatusNoContent == 204
StatusBadRequest == 400
StatusNotFound == 404
StatusConflict == 409

-----------------------------------------------------------------------------
(* Inputs *)

\* the empty string, as an id
NoID == <<>>

\* values uuid.NewString() can return: strings of one fixed shape
Uuids == {<<1, 2>>, <<2, 1>>}

\* ids a caller can put in a request body or path: any non-empty string,
\* GUID-shaped or not
CallerIDs == {<<2>>, <<2, 1>>}

PathIDs == CallerIDs \cup Uuids

Names == {"", "A"}

\* what queryParams.Get returns for "format" and "sort": "" when absent
FormatValues == {"", "json", "yaml", "xml"}
SortValues == {"", "id", "timestamp", "name"}

\* request bodies of POST /items: one that does not decode, and the
\* decoded {id, name} of those that do (an absent field decodes to "")
Bodies ==
    {[ok |-> FALSE, ID |-> NoID, Name |-> ""]}
    \cup {[ok |-> TRUE, ID |-> i, Name |-> n] : i \in CallerIDs \cup {NoID}, n \in Names}

-----------------------------------------------------------------------------
(* Pure functions *)

\* a < b on Go strings: lexicographic by character
RECURSIVE StrLess(_, _)
StrLess(a, b) ==
    IF b = <<>> THEN FALSE
    ELSE IF a = <<>> THEN TRUE
    ELSE IF a[1] < b[1] THEN TRUE
    ELSE IF a[1] > b[1] THEN FALSE
    ELSE StrLess(Tail(a), Tail(b))

\* item{}
ZeroItem == [ID |-> NoID, Name |-> "", Timestamp |-> 0]

\* the loop of searchID from 1-based position i on
RECURSIVE searchFrom(_, _, _)
searchFrom(its, id, i) ==
    IF i > Len(its) THEN [index |-> -1, item |-> ZeroItem, found |-> FALSE]
    ELSE IF its[i].ID = id THEN [index |-> i - 1, item |-> its[i], found |-> TRUE]
    ELSE searchFrom(its, id, i + 1)

\* searchID returning the head of the slice for the item it found
searchID_head(its, id) ==
    LET r == searchFrom(its, id, 1)
    IN  IF r.found THEN [r EXCEPT !.item = its[1]] ELSE r

\* searchID going on after a match, so that the last match wins
searchID_lastMatch(its, id) ==
    LET M == {i \in 1..Len(its) : its[i].ID = id}
    IN  IF M = {} THEN [index |-> -1, item |-> ZeroItem, found |-> FALSE]
        ELSE LET i == CHOOSE k \in M : \A j \in M : j <= k
             IN  [index |-> i - 1, item |-> its[i], found |-> TRUE]

searchID(its, id) == searchFrom(its, id, 1)

\* parseQuery returning the parameters as given along with the error
parseQuery_keepsValues(format, sort) ==
    IF format # "" /\ format # "json" /\ format # "yaml"
    THEN [err |-> TRUE, Format |-> format, Sort |-> sort]
    ELSE IF sort # "" /\ sort # "id" /\ sort # "timestamp"
    THEN [err |-> TRUE, Format |-> format, Sort |-> sort]
    ELSE [err |-> FALSE, Format |-> format, Sort |-> sort]

parseQuery(format, sort) ==
    IF format # "" /\ format # "json" /\ format # "yaml"
    THEN [err |-> TRUE, Format |-> "", Sort |-> ""]
    ELSE IF sort # "" /\ sort # "id" /\ sort # "timestamp"
    THEN [err |-> TRUE, Format |-> "", Sort |-> ""]
    ELSE [err |-> FALSE, Format |-> format, Sort |-> sort]

\* the less functions handed to sort.Slice
lessByTimestamp(a, b) == a.Timestamp < b.Timestamp

\* the comparison of ids the other way round
lessByID_ascending(a, b) == StrLess(a.ID, b.ID)

lessByID(a, b) == StrLess(b.ID, a.ID)

\* the rearrangements of s
Rearrangements(s) ==
    {[i \in 1..Len(s) |-> s[p[i]]] :
        p \in {q \in [1..Len(s) -> 1..Len(s)] : \A i, j \in 1..Len(s) : q[i] = q[j] => i = j}}

\* sort.Slice is not stable: it leaves the slice in any rearrangement that
\* is in order by less, here the set of the pairs <<a, b>> with a before b
sortSlice(s, less) ==
    {t \in Rearrangements(s) : \A i, j \in 1..Len(t) : i < j => <<t[j], t[i]>> \notin less}

\* the two closures over items that getItems hands to sort.Slice
byTimestamp(s) ==
    {ab \in {<<s[i], s[j]>> : i, j \in 1..Len(s)} : lessByTimestamp(ab[1], ab[2])}

byID(s) ==
    {ab \in {<<s[i], s[j]>> : i, j \in 1..Len(s)} : lessByID(ab[1], ab[2])}

\* the order getItems picks for params.Sort
sortKey(sort) == IF sort = "timestamp" THEN "timestamp" ELSE "id"

\* the encoder the handlers pick for params.Format
encoderFor(format) == IF format = "yaml" THEN "yaml" ELSE "json"

-----------------------------------------------------------------------------
(* Responses *)

Response(op, body, format, sort, id, status, enc, out) ==
    [op |-> op, body |-> body, format |-> format, sort |-> sort, id |-> id,
     status |-> status, enc |-> enc, out |-> out]

NoBody == [ok |-> FALSE, ID |-> NoID, Name |-> ""]

\* the goroutines serving requests at the same time
Procs == {"g1", "g2"}

\* a goroutine that has not served a request yet
IdleProc ==
    [pc |-> "idle", op |-> "none", id |-> NoID, index |-> -1, item |-> ZeroItem, status |-> 0]

-----------------------------------------------------------------------------
(* State machine *)

Init ==
    /\ items = <<>>
    /\ now = 1
    /\ resp = Response("none", NoBody, "", "", NoID, 0, "", <<>>)
    /\ call = [fn |-> "none"]
    /\ proc = [p \in Procs |-> IdleProc]

\* time passes between two readings of time.Now()
Tick ==
    /\ now < MaxTime
    /\ now' = now + 1
    /\ UNCHANGED <<items, resp>>

\* getItems sorting the slice before it looks at the query
getItems_sortFirst(format, sort) ==
    LET params == parseQuery(format, sort)
        R(status, enc, out) == Response("getItems", NoBody, format, sort, NoID, status, enc, out)
    IN  /\ UNCHANGED now
        /\ IF Len(items) = 0
           THEN /\ resp' = R(StatusNoContent, "", <<>>)
                /\ UNCHANGED items
           ELSE /\ IF sort = "timestamp"
                   THEN items' \in sortSlice(items, byTimestamp(items))
                   ELSE items' \in sortSlice(items, byID(items))
                /\ IF params.err
                   THEN resp' = R(StatusBadRequest, "text", <<>>)
                   ELSE resp' = R(StatusOK, encoderFor(params.Format), items')

\* GET /items
getItems(format, sort) ==
    LET params == parseQuery(format, sort)
        R(status, enc, out) == Response("getItems", NoBody, format, sort, NoID, status, enc, out)
    IN  /\ UNCHANGED now
        /\ IF Len(items) = 0
           THEN /\ resp' = R(StatusNoContent, "", <<>>)
                /\ UNCHANGED items
           ELSE IF params.err
           THEN /\ resp' = R(StatusBadRequest, "text", <<>>)
                /\ UNCHANGED items
           ELSE /\ IF sortKey(params.Sort) = "timestamp"
                   THEN items' \in sortSlice(items, byTimestamp(items))
                   ELSE items' \in sortSlice(items, byID(items))
                /\ resp' = R(StatusOK, encoderFor(params.Format), items')

\* addItem looking for a duplicate id before it looks at the name
addItemStatus_idFirst(its, body) ==
    IF ~body.ok THEN StatusBadRequest
    ELSE IF body.ID # NoID /\ searchID(its, body.ID).found THEN StatusConflict
    ELSE IF body.Name = "" THEN StatusBadRequest
    ELSE StatusCreated

\* addItem without the check of the name
addItemStatus_anyName(its, body) ==
    IF ~body.ok THEN StatusBadRequest
    ELSE IF body.ID # NoID /\ searchID(its, body.ID).found THEN StatusConflict
    ELSE StatusCreated

\* the status addItem answers a decoded or undecodable body with
addItemStatus(its, body) ==
    IF ~body.ok THEN StatusBadRequest
    ELSE IF body.Name = "" THEN StatusBadRequest
    ELSE IF body.ID # NoID /\ searchID(its, body.ID).found THEN StatusConflict
    ELSE StatusCreated

\* addItem generating an id whether or not the body carries one
idsFor_alwaysGenerated(body) == Uuids

\* the ids addItem can give the new item: the one of the body, or any that
\* uuid.NewString() can return when the body has none
idsFor(body) == IF body.ID = NoID THEN Uuids ELSE {body.ID}

\* POST /items
addItem(body) ==
    LET status == addItemStatus(items, body)
        R(enc, out) == Response("addItem", body, "", "", NoID, status, enc, out)
    IN  /\ UNCHANGED now
        /\ IF status # StatusCreated
           THEN /\ resp' = R("text", <<>>)
                /\ UNCHANGED items
           ELSE /\ Len(items) < MaxItems
                /\ \E id \in idsFor(body) :
                     LET newItem == [ID |-> id, Name |-> body.Name, Timestamp |-> now]
                     IN  /\ items' = Append(items, newItem)
                         /\ resp' = R("json", <<newItem>>)

\* GET /items/{id}
getItemsByID(id, format, sort) ==
    LET s == searchID(items, id)
        params == parseQuery(format, sort)
        R(status, enc, out) == Response("getItemsByID", NoBody, format, sort, id, status, enc, out)
    IN  /\ UNCHANGED <<items, now>>
        /\ IF ~s.found
           THEN resp' = R(StatusNotFound, "text", <<>>)
           ELSE IF params.err
           THEN resp' = R(StatusBadRequest, "text", <<>>)
           ELSE resp' = R(StatusOK, encoderFor(params.Format), <<s.item>>)

\* the removal cutting the slice at the index
removeAt_truncate(its, index) == SubSeq(its, 1, index)

\* append(items[:index], items[index+1:]...), index counted from 0
removeAt(its, index) == SubSeq(its, 1, index) \o SubSeq(its, index + 2, Len(its))

\* DELETE /items/{id}
deleteItemsByID(id) ==
    LET s == searchID(items, id)
        R(status, enc, out) == Response("deleteItemsByID", NoBody, "", "", id, status, enc, out)
    IN  /\ UNCHANGED now
        /\ IF ~s.found
           THEN /\ resp' = R(StatusNotFound, "text", <<>>)
                /\ UNCHANGED items
           ELSE /\ items' = removeAt(items, s.index)
                /\ resp' = R(StatusOK, "", <<>>)

Next ==
    \/ Tick
    \/ \E f \in FormatValues, s \in SortValues : getItems(f, s)
    \/ \E b \in Bodies : addItem(b)
    \/ \E id \in PathIDs, f \in FormatValues, s \in SortValues : getItemsByID(id, f, s)
    \/ \E id \in PathIDs : deleteItemsByID(id)

Spec == Init /\ [][Next /\ UNCHANGED <<call, proc>>]_vars

-----------------------------------------------------------------------------
(* Calls of the pure functions *)

\* the items a slice handed to searchID can hold
SearchItems == [ID : PathIDs \cup {NoID}, Name : {"A"}, Timestamp : 1..MaxTime]

\* the slices handed to searchID: of any length up to MaxItems
SearchSlices == UNION {[1..n -> SearchItems] : n \in 0..MaxItems}

\* parseQuery(r), and what the handlers make of the parameters it returns
callParseQuery(format, sort) ==
    LET params == parseQuery(format, sort)
    IN  /\ call.fn = "none"
        /\ call' = [fn |-> "parseQuery", format |-> format, sort |-> sort,
                    result |-> params,
                    enc |-> encoderFor(params.Format),
                    key |-> sortKey(params.Sort)]
        /\ UNCHANGED <<items, now, resp, proc>>

\* searchID(items, id)
callSearchID(its, id) ==
    /\ call.fn = "none"
    /\ call' = [fn |-> "searchID", its |-> its, id |-> id, result |-> searchID(its, id)]
    /\ UNCHANGED <<items, now, resp, proc>>

\* the result has been looked at; on to the next call
nextCall ==
    /\ call.fn # "none"
    /\ call' = [fn |-> "none"]
    /\ UNCHANGED <<items, now, resp, proc>>

NextCalls ==
    \/ nextCall
    \/ \E f \in FormatValues, s \in SortValues : callParseQuery(f, s)
    \/ \E its \in SearchSlices, id \in PathIDs \cup {NoID} : callSearchID(its, id)

SpecCalls == Init /\ [][NextCalls]_vars

-----------------------------------------------------------------------------
(* Requests handled at the same time *)

\* bodies of the Creates served at the same time: decoded, named, with an
\* id of their own
ConcurrentBodies == {b \in Bodies : b.ok /\ b.Name # "" /\ b.ID # NoID}

\* goroutine p has answered with status and is free for the next request
Answered(p, op, id, status) ==
    [proc EXCEPT ![p] = [pc |-> "idle", op |-> op, id |-> id, index |-> -1,
                         item |-> ZeroItem, status |-> status]]

\* the appends that goroutines past the duplicate check have still to do
PendingAppends == Cardinality({p \in Procs : proc[p].pc = "append"})

\* addItem up to the duplicate check (main.go:135-159)
addItemCheck(p, body) ==
    LET status == addItemStatus(items, body)
    IN  /\ proc[p].pc = "idle"
        /\ UNCHANGED <<items, now, resp, call>>
        /\ IF status # StatusCreated
           THEN proc' = Answered(p, "addItem", body.ID, status)
           ELSE /\ Len(items) + PendingAppends < MaxItems
                /\ \E id \in idsFor(body) :
                     proc' = [proc EXCEPT ![p] =
                                [pc |-> "append", op |-> "addItem", id |-> body.ID, index |-> -1,
                                 item |-> [ID |-> id, Name |-> body.Name, Timestamp |-> 0],
                                 status |-> 0]]

\* addItem from the reading of the clock on (main.go:161-172)
addItemAppend(p) ==
    LET newItem == [proc[p].item EXCEPT !.Timestamp = now]
    IN  /\ proc[p].pc = "append"
        /\ items' = Append(items, newItem)
        /\ proc' = [proc EXCEPT ![p] = [pc |-> "idle", op |-> "addItem", id |-> proc[p].id,
                                        index |-> -1, item |-> newItem, status |-> StatusCreated]]
        /\ UNCHANGED <<now, resp, call>>

\* deleteItemsByID up to the lookup of the index (main.go:118-125)
deleteSearch(p, id) ==
    LET s == searchID(items, id)
    IN  /\ proc[p].pc = "idle"
        /\ UNCHANGED <<items, now, resp, call>>
        /\ IF ~s.found
           THEN proc' = Answered(p, "deleteItemsByID", id, StatusNotFound)
           ELSE proc' = [proc EXCEPT ![p] =
                           [pc |-> "remove", op |-> "deleteItemsByID", id |-> id,
                            index |-> s.index, item |-> ZeroItem, status |-> 0]]

\* deleteItemsByID from the removal on (main.go:127-131); items[index+1:]
\* panics when the slice has got shorter than that, and the server then
\* drops the connection without a status
deleteRemove(p) ==
    /\ proc[p].pc = "remove"
    /\ UNCHANGED <<now, resp, call>>
    /\ IF proc[p].index + 1 > Len(items)
       THEN /\ proc' = Answered(p, "deleteItemsByID", proc[p].id, 0)
            /\ UNCHANGED items
       ELSE /\ items' = removeAt(items, proc[p].index)
            /\ proc' = Answered(p, "deleteItemsByID", proc[p].id, StatusOK)

\* getItems, in one step (main.go:175-212)
listItems(p, format, sort) ==
    LET params == parseQuery(format, sort)
    IN  /\ proc[p].pc = "idle"
        /\ UNCHANGED <<now, resp, call>>
        /\ IF Len(items) = 0
           THEN /\ proc' = Answered(p, "getItems", NoID, StatusNoContent)
                /\ UNCHANGED items
           ELSE IF params.err
           THEN /\ proc' = Answered(p, "getItems", NoID, StatusBadRequest)
                /\ UNCHANGED items
           ELSE /\ IF sortKey(params.Sort) = "timestamp"
                   THEN items' \in sortSlice(items, byTimestamp(items))
                   ELSE items' \in sortSlice(items, byID(items))
                /\ proc' = Answered(p, "getItems", NoID, StatusOK)

NextConcurrent ==
    \/ Tick /\ UNCHANGED <<call, proc>>
    \/ \E p \in Procs, b \in ConcurrentBodies : addItemCheck(p, b)
    \/ \E p \in Procs : addItemAppend(p)
    \/ \E p \in Procs, id \in PathIDs : deleteSearch(p, id)
    \/ \E p \in Procs : deleteRemove(p)
    \/ \E p \in Procs, f \in FormatValues, s \in SortValues : listItems(p, f, s)

SpecConcurrent == Init /\ [][NextConcurrent]_vars

-----------------------------------------------------------------------------
(* Helpers of the properties *)

\* the ids held by the store
StoredIDs(its) == {its[i].ID : i \in 1..Len(its)}

\* t holds the items of s, each as often as s does
IsRearrangement(t, s) ==
    /\ Len(t) = Len(s)
    /\ \E p \in [1..Len(s) -> 1..Len(s)] :
         /\ \A i, j \in 1..Len(s) : p[i] = p[j] => i = j
         /\ \A i \in 1..Len(s) : t[i] = s[p[i]]

ValidQuery(format, sort) ==
    /\ format \in {"", "json", "yaml"}
    /\ sort \in {"", "id", "timestamp"}

\* the step handles a request of kind op: every step either lets time pass
\* or handles the request that resp' records
Handles(op) == now' = now /\ resp'.op = op

-----------------------------------------------------------------------------
(* C1 *)

\* C1: in every state reachable from the empty store by sequentially
\* handled requests, no two items of the store have the same id.
C1_NoDuplicateIDs ==
    \A i, j \in 1..Len(items) : items[i].ID = items[j].ID => i = j

-----------------------------------------------------------------------------
(* C2 *)

\* C2 as stated: a Create whose body carries a non-empty id that is already
\* in the store is answered 409 whatever the name, the empty name included,
\* and leaves the store unchanged.
C2_DuplicateAlwaysConflict ==
    [][(Handles("addItem") /\ resp'.body.ok /\ resp'.body.ID # NoID
          /\ resp'.body.ID \in StoredIDs(items))
            => (resp'.status = StatusConflict /\ items' = items)]_vars

\* C2 amended: such a Create never stores anything; it is answered 409 when
\* the name is non-empty and 400 when the name is empty, because the name is
\* checked before the id.
C2_DuplicateNeverStored ==
    [][(Handles("addItem") /\ resp'.body.ok /\ resp'.body.ID # NoID
          /\ resp'.body.ID \in StoredIDs(items))
            => /\ items' = items
               /\ resp'.status =
                    (IF resp'.body.Name = "" THEN StatusBadRequest ELSE StatusConflict)]_vars

\* a Create with a non-empty name and an id already stored was answered 409
C2_Witness ==
    /\ resp.op = "addItem"
    /\ resp.body.ok
    /\ resp.body.Name # ""
    /\ resp.body.ID \in StoredIDs(items)
    /\ resp.status = StatusConflict

-----------------------------------------------------------------------------
(* C3 *)

\* C3: a Create with an empty name is answered 400 whether its id is absent,
\* new or already stored, and adds no item.
C3_EmptyNameRejected ==
    [][(Handles("addItem") /\ resp'.body.Name = "")
            => (resp'.status = StatusBadRequest /\ items' = items)]_vars

\* a Create with an empty name and an id that is already stored was answered
C3_Witness ==
    /\ resp.op = "addItem"
    /\ resp.body.ok
    /\ resp.body.Name = ""
    /\ resp.body.ID \in StoredIDs(items)
    /\ resp.status = StatusBadRequest

-----------------------------------------------------------------------------
(* C4 *)

\* C4: a Create with a non-empty name and no id is answered 201 and stores,
\* as the last item, one whose generated id differs from the id of every
\* item that was in the store, caller-supplied ids included.
C4_GeneratedIDUnique ==
    [][(Handles("addItem") /\ resp'.body.ok /\ resp'.body.Name # "" /\ resp'.body.ID = NoID)
            => /\ resp'.status = StatusCreated
               /\ Len(items') = Len(items) + 1
               /\ items'[Len(items')].ID \notin StoredIDs(items)]_vars

-----------------------------------------------------------------------------
(* C5 *)

\* C5: a Get(id) with valid query parameters is answered 200 with a stored
\* item whose id is the requested one (its id, name and timestamp as stored)
\* when the store holds such an item, and 404 with no item otherwise.
C5_GetReturnsStoredItem ==
    [][(Handles("getItemsByID") /\ ValidQuery(resp'.format, resp'.sort))
            => IF resp'.id \in StoredIDs(items)
               THEN /\ resp'.status = StatusOK
                    /\ Len(resp'.out) = 1
                    /\ resp'.out[1].ID = resp'.id
                    /\ \E i \in 1..Len(items) : items[i] = resp'.out[1]
               ELSE /\ resp'.status = StatusNotFound
                    /\ resp'.out = <<>>]_vars

\* a Get was answered 200 with the second item of a store whose first item
\* has another id
C5_Witness ==
    /\ resp.op = "getItemsByID"
    /\ resp.status = StatusOK
    /\ Len(items) >= 2
    /\ items[1].ID # resp.id
    /\ resp.out = <<items[2]>>

-----------------------------------------------------------------------------
(* C6 *)

\* C6: after a Delete(id) answered 200 and until a Create stores id again,
\* every Get(id) and every Delete(id) is answered 404.  Stated step by step:
\* a Delete(id) answered 200 leaves no item with that id; an id the store
\* does not hold is not brought back by anything but a Create; and a Get or
\* Delete of an id the store does not hold is answered 404.
C6_DeletedStaysNotFound ==
    [][/\ (Handles("deleteItemsByID") /\ resp'.status = StatusOK)
            => resp'.id \notin StoredIDs(items')
       /\ ~Handles("addItem")
            => StoredIDs(items') \subseteq StoredIDs(items)
       /\ ((Handles("deleteItemsByID") \/ Handles("getItemsByID"))
             /\ resp'.id \notin StoredIDs(items))
            => resp'.status = StatusNotFound]_vars

-----------------------------------------------------------------------------
(* C7 *)

\* C7: on a non-empty store, a List with valid parameters returns a
\* rearrangement of all stored items; with sort=id or no sort parameter the
\* ids are in non-increasing lexicographic order, with sort=timestamp the
\* timestamps are in non-decreasing order.
C7_ListSorted ==
    [][(Handles("getItems") /\ Len(items) > 0 /\ ValidQuery(resp'.format, resp'.sort))
            => /\ resp'.status = StatusOK
               /\ IsRearrangement(resp'.out, items)
               /\ \A i, j \in 1..Len(resp'.out) :
                    i < j => IF resp'.sort = "timestamp"
                             THEN resp'.out[i].Timestamp <= resp'.out[j].Timestamp
                             ELSE ~StrLess(resp'.out[i].ID, resp'.out[j].ID)]_vars

\* a List sorted by timestamp returned two items whose order by id is the
\* other way round
C7_Witness ==
    /\ resp.op = "getItems"
    /\ resp.sort = "timestamp"
    /\ resp.status = StatusOK
    /\ Len(resp.out) >= 2
    /\ resp.out[1].Timestamp < resp.out[2].Timestamp
    /\ StrLess(resp.out[1].ID, resp.out[2].ID)

-----------------------------------------------------------------------------
(* C8 *)

\* C8: a List request, whatever its sort and format parameters, leaves the
\* stored collection as it was: the same items in the same order.
C8_ListLeavesStore ==
    [][Handles("getItems") => items' = items]_vars

-----------------------------------------------------------------------------
(* C9 *)

\* C9: in every store state, the empty store included, GET /items with a
\* sort or format value outside its allowed set is answered 400; with valid
\* or absent parameters it is answered 204 with an empty body when the store
\* is empty and 200 with the encoded list otherwise.
C9_ListStatus ==
    resp.op = "getItems" =>
        IF ~ValidQuery(resp.format, resp.sort)
        THEN resp.status = StatusBadRequest
        ELSE IF Len(items) = 0
        THEN resp.status = StatusNoContent /\ resp.out = <<>>
        ELSE resp.status = StatusOK /\ resp.out = items

-----------------------------------------------------------------------------
(* C10 *)

\* C10: GET /items/{id} validates its query parameters before it looks the
\* id up: a format or sort value outside the allowed set is answered 400
\* whether or not an item has that id, and only a request with valid
\* parameters is answered 404 for an unknown id or 200 for a known one.
C10_GetValidatesFirst ==
    resp.op = "getItemsByID" =>
        IF ~ValidQuery(resp.format, resp.sort)
        THEN resp.status = StatusBadRequest
        ELSE IF resp.id \in StoredIDs(items)
        THEN resp.status = StatusOK
        ELSE resp.status = StatusNotFound

-----------------------------------------------------------------------------
(* C11 *)

-----------------------------------------------------------------------------
(* C12 *)

\* C12: a Create answered 201 appends exactly one item to the end of the
\* collection, with the requested name, the id of the body when it has one
\* and a generated id otherwise, and the time read by the server; the item
\* in the response is the item stored, and the items stored before are
\* unchanged.
C12_CreateAppendsOne ==
    [][(Handles("addItem") /\ resp'.status = StatusCreated)
            => /\ Len(items') = Len(items) + 1
               /\ \A i \in 1..Len(items) : items'[i] = items[i]
               /\ items'[Len(items')].Name = resp'.body.Name
               /\ IF resp'.body.ID # NoID
                  THEN items'[Len(items')].ID = resp'.body.ID
                  ELSE items'[Len(items')].ID \in Uuids
               /\ items'[Len(items')].Timestamp = now
               /\ resp'.out = <<items'[Len(items')]>>]_vars

\* a Create with an id of its own was answered 201 after another item
C12_Witness ==
    /\ resp.op = "addItem"
    /\ resp.status = StatusCreated
    /\ resp.body.ID # NoID
    /\ Len(items) >= 2
    /\ resp.out = <<items[Len(items)]>>

-----------------------------------------------------------------------------
(* C13 *)

\* C13: between the Create that stored it and the Delete that removes it, a
\* stored item is never changed: every Get(id) in between returns the name
\* and timestamp the Create returned, whatever List, Get, Create and Delete
\* requests come in between.  Stated step by step: what a Create answered
\* 201 returns is what a Get of its id finds; what a Get of a stored id
\* finds is the same after every step that is not a Delete of that id
\* answered 200; and a Get answered 200 returns what it finds.
C13_StoredItemImmutable ==
    [][/\ (Handles("addItem") /\ resp'.status = StatusCreated)
            => searchID(items', resp'.out[1].ID).item = resp'.out[1]
       /\ \A id \in StoredIDs(items) :
            ~(Handles("deleteItemsByID") /\ resp'.id = id /\ resp'.status = StatusOK)
                => searchID(items', id).item = searchID(items, id).item
       /\ (Handles("getItemsByID") /\ resp'.status = StatusOK)
            => resp'.out = <<searchID(items, resp'.id).item>>]_vars

-----------------------------------------------------------------------------
(* C16 *)

\* C16: an operation answered with an error status leaves the store as it
\* was: a Create answered 400 or 409, a Delete answered 404, a Get answered
\* 404 or 400 and a List answered 400 change neither the items nor their
\* order.
C16_ErrorsLeaveStore ==
    [][(now' = now /\ resp'.op \in {"addItem", "deleteItemsByID", "getItemsByID", "getItems"}
          /\ resp'.status \in {StatusBadRequest, StatusNotFound, StatusConflict})
            => items' = items]_vars

\* a List with an invalid parameter was answered 400 on a store of two items
\* that are not in the order a List by id leaves them in
C16_Witness ==
    /\ resp.op = "getItems"
    /\ resp.status = StatusBadRequest
    /\ Len(items) >= 2
    /\ StrLess(items[1].ID, items[2].ID)

-----------------------------------------------------------------------------
(* C17 *)

\* C17: in every reachable state every stored item has a non-empty name and
\* a non-empty id.
C17_NameAndIDNonEmpty ==
    \A i \in 1..Len(items) : items[i].Name # "" /\ items[i].ID # NoID

\* the store holds an item whose id was generated and one whose id a caller
\* gave, after a Create with an empty name was turned down
C17_Witness ==
    /\ Len(items) >= 2
    /\ \E i, j \in 1..Len(items) : items[i].ID \in Uuids /\ items[j].ID \notin Uuids
    /\ resp.op = "addItem"
    /\ resp.body.ok
    /\ resp.body.Name = ""
    /\ resp.status = StatusBadRequest

-----------------------------------------------------------------------------
(* C14 *)

\* C14: parseQuery returns an error exactly when format has a non-empty
\* value other than json or yaml, or sort has a non-empty value other than
\* id or timestamp; with the error it returns the zero QueryParams, without
\* it the two values as given ("" when absent); and the handlers take an
\* empty format for json and an empty sort for id.
C14_ParseQuery ==
    call.fn = "parseQuery" =>
        /\ call.result.err <=>
             \/ (call.format # "" /\ call.format \notin {"json", "yaml"})
             \/ (call.sort # "" /\ call.sort \notin {"id", "timestamp"})
        /\ call.result.err => (call.result.Format = "" /\ call.result.Sort = "")
        /\ ~call.result.err =>
             /\ call.result.Format = call.format
             /\ call.result.Sort = call.sort
             /\ call.enc = (IF call.format \in {"", "json"} THEN "json" ELSE "yaml")
             /\ call.key = (IF call.sort \in {"", "id"} THEN "id" ELSE "timestamp")

\* parseQuery was called with a valid format and a sort outside the allowed
\* values, and returned the error
C14_Witness ==
    /\ call.fn = "parseQuery"
    /\ call.format = "yaml"
    /\ call.sort = "name"
    /\ call.result.err

-----------------------------------------------------------------------------
(* C15 *)

\* C15: for every slice and every id, searchID returns (i, items[i], true)
\* with i the smallest index (from 0) of an item whose id is the requested
\* one, and (-1, item{}, false) when there is none, also for the empty
\* slice and for the empty id.
C15_SearchID ==
    call.fn = "searchID" =>
        LET M == {i \in 1..Len(call.its) : call.its[i].ID = call.id}
        IN  IF M = {}
            THEN call.result = [index |-> -1, item |-> ZeroItem, found |-> FALSE]
            ELSE \E i \in M :
                   /\ \A j \in M : i <= j
                   /\ call.result = [index |-> i - 1, item |-> call.its[i], found |-> TRUE]

\* searchID was called on a slice that holds the id twice, in two different
\* items
C15_Witness ==
    /\ call.fn = "searchID"
    /\ Len(call.its) >= 2
    /\ call.its[1].ID = call.id
    /\ call.its[2].ID = call.id
    /\ call.its[1] # call.its[2]
    /\ call.result.found

-----------------------------------------------------------------------------
(* C18 *)

\* C18: with Creates handled at the same time, the duplicate check and the
\* append being separate steps, the store still never holds two items with
\* the same id, and of two Creates with the same id of their own at most one
\* is answered 201 with its item stored.
C18_ConcurrentCreatesUnique ==
    /\ \A i, j \in 1..Len(items) : items[i].ID = items[j].ID => i = j
    /\ \A p, q \in Procs :
         (/\ p # q
          /\ proc[p].op = "addItem" /\ proc[p].status = StatusCreated
          /\ proc[q].op = "addItem" /\ proc[q].status = StatusCreated
          /\ proc[p].id = proc[q].id)
             => ~\E i, j \in 1..Len(items) :
                    i # j /\ items[i] = proc[p].item /\ items[j] = proc[q].item

-----------------------------------------------------------------------------
(* C19 *)

\* the items held by the store
StoredItems(its) == {its[i] : i \in 1..Len(its)}

\* C19: with a Delete(id) handled at the same time as List or Create
\* requests, the lookup of the index and the removal at it being separate
\* steps, a Delete answered 200 still removes an item with the requested id
\* and no other, and no stored item disappears in any other step.
C19_ConcurrentDeleteRemovesOwn ==
    [][/\ \A p \in Procs :
            (proc[p].pc = "remove" /\ proc'[p].pc = "idle" /\ proc'[p].status = StatusOK)
                => \E k \in 1..Len(items) :
                     /\ items[k].ID = proc[p].id
                     /\ Len(items') = Len(items) - 1
                     /\ \A i \in 1..Len(items') :
                          items'[i] = (IF i < k THEN items[i] ELSE items[i + 1])
       /\ (\A p \in Procs : ~(proc[p].pc = "remove" /\ proc'[p].pc = "idle"))
            => StoredItems(items) \subseteq StoredItems(items')]_vars

=============================================================================
